---- MODULE Spec2Model ----
(***************************************************************************)
(* State-machine model of the ChannelAddPeople screen                      *)
(* (app/screens/channel_add_people/channel_add_people.tsx).                *)
(*                                                                         *)
(* React state (useState) is modelled by one variable per state cell; a    *)
(* setter call writes the cell at once (updates are applied in call        *)
(* order, so the cell always holds the value the next render will see).    *)
(* What the handlers of the last committed render closed over is kept in   *)
(* `rendered`: a handler reads `loading`, `term`, `startingAddPeople`,     *)
(* `selectedIds` / `selectedCount` from there, and refs (next, page,       *)
(* mounted, searchTimeoutId) from the live variables.  Render commits the  *)
(* cells to `rendered` and runs the effects whose dependencies changed.    *)
(* When React commits is left open: any number of handlers, timers and     *)
(* completions may run between a setter call and the commit of its render. *)
(*                                                                         *)
(* Requests in flight are kept with the log of the requests issued, so the *)
(* calls made to fetchProfilesNotInChannel, searchProfiles and             *)
(* addMembersToChannel can be read off the state, as can the alerts raised *)
(* and the close() calls made.                                             *)
(***************************************************************************)
EXTENDS Integers, Sequences, FiniteSets, TLC

\* ---------------------------------------------------------------- bounds
NumProfiles == 2        \* users the server can return (ids 1..NumProfiles)
MaxUserEvents == 3      \* user interface events (taps, text changes, scrolls) in a run

\* ------------------------------------------------------- program constants
MAX_SELECTED_USERS == 1     \* General.MAX_USERS_ADD_TO_CHANNEL, scaled down
PROFILE_CHUNK_SIZE == 2     \* General.PROFILE_CHUNK_SIZE, scaled down

Users == 1..NumProfiles
NoTimer == 0                    \* searchTimeoutId.current = null
NoArg == [given |-> FALSE, ids |-> {}]   \* startAddPeople() called without argument
Texts == {"a", "B"}             \* non-empty texts typed into the search box
SearchTexts == Texts \cup {""}

VARIABLES
    profiles,           \* useState<UserProfile[]>([])
    searchResults,      \* useState<UserProfile[]>([])
    loading,            \* useState(false)
    term,               \* useState('')
    startingAddPeople,  \* useState(false)
    selectedIds,        \* useState({}) : the set of keys of the id -> profile map
    showToast,          \* useState(false)
    searchTimeoutId,    \* useRef: id of the timer onSearch set last, or NoTimer
    searchTimers,       \* pending setTimeout timers of onSearch: records [id, text]
    next,               \* useRef(true)
    page,               \* useRef(-1)
    mounted,            \* useRef(false), true after the mount effect
    rendered,           \* the state cells as of the last committed render
    getProfilesTimer,   \* the current getProfiles instance has a pending debounce timer
    staleTimers,        \* pending debounce timers of replaced getProfiles instances
    fetchLog,           \* pages requested by fetchProfilesNotInChannel, in issue order
    fetchInFlight,      \* indices of fetchLog not yet answered
    searchLog,          \* terms sent to searchProfiles, in issue order
    searchInFlight,     \* indices of searchLog not yet answered
    addLog,             \* id lists sent to addMembersToChannel, in issue order
    addInFlight,        \* indices of addLog not yet answered
    alerts,             \* number of alertErrorWithFallback calls
    closes,             \* number of close() calls
    lastOp,             \* the last handler or callback that ran, with its inputs
    userEvents          \* number of user interface events handled so far

vars == <<profiles, searchResults, loading, term, startingAddPeople, selectedIds,
          showToast, searchTimeoutId, searchTimers, next, page, mounted, rendered,
          getProfilesTimer, staleTimers, fetchLog, fetchInFlight, searchLog,
          searchInFlight, addLog, addInFlight, alerts, closes, lastOp,
          userEvents>>

stateVars == <<profiles, searchResults, loading, term, startingAddPeople,
               selectedIds, showToast>>
refVars == <<searchTimeoutId, searchTimers, next, page, mounted>>
debounceVars == <<getProfilesTimer, staleTimers>>
fetchVars == <<fetchLog, fetchInFlight>>
searchVars == <<searchLog, searchInFlight>>
addVars == <<addLog, addInFlight, alerts, closes>>

\* A user interface event is handled: it is counted against MaxUserEvents.
UserEvent ==
    /\ userEvents < MaxUserEvents
    /\ userEvents' = userEvents + 1

\* ------------------------------------------------------------- helpers
\* The state cells a render closes over.
Snapshot(p, sr, l, t, s, sel) ==
    [profiles |-> p, searchResults |-> sr, loading |-> l, term |-> t,
     startingAddPeople |-> s, selectedIds |-> sel]

\* const selectedCount = Object.keys(selectedIds).length, as of the last render
selectedCount == Cardinality(rendered.selectedIds)

\* const isSearch = Boolean(term), as of the last render
isSearch == rendered.term # ""

\* const hasProfiles = Boolean(profiles.length), as of the last render
hasProfiles == Len(rendered.profiles) > 0

\* The closure of a getProfiles instance: the values its dependency list tracks.
Closures == [loading : BOOLEAN, isSearch : BOOLEAN]
CurrentClosure == [loading |-> rendered.loading, isSearch |-> isSearch]

Range(s) == {s[i] : i \in DOMAIN s}

\* The users the server holds that are not in the channel, in server order.
ServerProfiles == [i \in 1..NumProfiles |-> i]

\* fetchProfilesNotInChannel(..., page, PROFILE_CHUNK_SIZE): the page-th chunk.
fetchProfilesNotInChannel(p) ==
    LET first == p * PROFILE_CHUNK_SIZE + 1
        end == (p + 1) * PROFILE_CHUNK_SIZE
        last == IF end < NumProfiles THEN end ELSE NumProfiles
    IN  IF first > NumProfiles THEN << >>
        ELSE SubSeq(ServerProfiles, first, last)

\* The characters of the strings the model uses.
Chars(s) ==
    CASE s = "" -> << >>
      [] s = "a" -> <<"a">>
      [] s = "b" -> <<"b">>
      [] s = "B" -> <<"B">>
      [] s = "al" -> <<"a", "l">>
      [] s = "AL" -> <<"A", "L">>
      [] s = "alan" -> <<"a", "l", "a", "n">>
      [] s = "albert" -> <<"a", "l", "b", "e", "r", "t">>
      [] s = "alice" -> <<"a", "l", "i", "c", "e">>
      [] s = "ball" -> <<"b", "a", "l", "l">>
      [] s = "bert" -> <<"b", "e", "r", "t">>

\* String.prototype.toLowerCase, character by character
LowerChar(c) ==
    CASE c = "A" -> "a"
      [] c = "B" -> "b"
      [] c = "L" -> "l"
      [] OTHER -> c

LowerChars(cs) == [i \in DOMAIN cs |-> LowerChar(cs[i])]

\* searchTerm.toLowerCase()
toLowerCase(t) ==
    CASE t = "B" -> "b"
      [] t = "AL" -> "al"
      [] OTHER -> t

\* String.prototype.startsWith, on character sequences
PrefixOf(pre, cs) == Len(pre) <= Len(cs) /\ SubSeq(cs, 1, Len(pre)) = pre

\* p.username.startsWith(term)
startsWith(s, t) == PrefixOf(Chars(t), Chars(s))

\* The profiles of the user directory: username and nickname by user id.
Directory == 1..4
Username(u) ==
    CASE u = 1 -> "albert"
      [] u = 2 -> "ball"
      [] u = 3 -> "alice"
      [] u = 4 -> "alan"
Nickname(u) == IF u = 1 THEN "bert" ELSE ""

\* The currentUserId prop: the directory's last user, who is in the channel.
currentUserId == 4

\* filterProfilesMatchingTerm(users, term): the users one of whose names starts
\* with the lower-cased term.
MatchesTerm(u, t) ==
    \E name \in {Username(u), Nickname(u)} :
        name # "" /\ PrefixOf(LowerChars(Chars(t)), LowerChars(Chars(name)))

filterProfilesMatchingTerm(users, t) ==
    SelectSeq(users, LAMBDA u : MatchesTerm(u, t))

\* The order in which the server lists search hits.
ServerSearchOrder == [i \in 1..NumProfiles |-> NumProfiles + 1 - i]

\* searchProfiles(serverUrl, lowerCasedTerm, ...): results.data of a successful call.
searchProfiles(q) == filterProfilesMatchingTerm(ServerSearchOrder, q)

\* (mutant) the results in API order, without promoting the prefix matches
data_Unpromoted(t, results, loaded, count) ==
    IF t # ""
    THEN SelectSeq(filterProfilesMatchingTerm(results, t),
                   LAMBDA p : ~(count > 0 /\ p = currentUserId))
    ELSE loaded

\* const data = useMemo(() => {...}, [term, isSearch && selectedCount,
\*                                    isSearch && searchResults, profiles])
data(t, results, loaded, count) ==
    IF t # ""
    THEN LET filtered == filterProfilesMatchingTerm(results, t)
             kept(p) == ~(count > 0 /\ p = currentUserId)
             exact(p) == Username(p) = t \/ startsWith(Username(p), t)
             exactMatches == SelectSeq(filtered, LAMBDA p : kept(p) /\ exact(p))
             rest == SelectSeq(filtered, LAMBDA p : kept(p) /\ ~exact(p))
         IN  exactMatches \o rest
    ELSE loaded

\* debounce(func, 100): a call of the debounced function clears the timer the
\* instance has pending, if any, and sets a new one; func runs when it fires.
debounce(pending) == TRUE

\* ----------------------------------------------------------------- Init
\* The state after the first render and its mount effect: mounted.current is
\* true and getProfiles() has been called once, so its debounce timer is pending.
Init ==
    /\ profiles = << >>
    /\ searchResults = << >>
    /\ loading = FALSE
    /\ term = ""
    /\ startingAddPeople = FALSE
    /\ selectedIds = {}
    /\ showToast = FALSE
    /\ searchTimeoutId = NoTimer
    /\ searchTimers = {}
    /\ next = TRUE
    /\ page = -1
    /\ mounted = TRUE
    /\ rendered = Snapshot(<< >>, << >>, FALSE, "", FALSE, {})
    /\ getProfilesTimer = debounce(FALSE)
    /\ staleTimers = [c \in Closures |-> 0]
    /\ fetchLog = << >>
    /\ fetchInFlight = {}
    /\ searchLog = << >>
    /\ searchInFlight = {}
    /\ addLog = << >>
    /\ addInFlight = {}
    /\ alerts = 0
    /\ closes = 0
    /\ lastOp = [name |-> "mount"]
    /\ userEvents = 0

\* ------------------------------------------------------------- rendering
\* (mutant) the effect without its dependency list: it runs after every render
ToastEffect_EveryRender(sel) == Cardinality(sel) >= MAX_SELECTED_USERS

\* useEffect(() => setShowToast(selectedCount >= MAX_SELECTED_USERS),
\*           [selectedCount >= MAX_SELECTED_USERS]):
\* the value of showToast after the effects of a render that sees selection sel.
ToastEffect(sel) ==
    LET oldDep == selectedCount >= MAX_SELECTED_USERS
        newDep == Cardinality(sel) >= MAX_SELECTED_USERS
    IN  IF newDep # oldDep THEN newDep ELSE showToast

\* One commit of the function component: every handler is re-created over the
\* current state cells.  getProfiles = useCallback(debounce(...), [loading,
\* isSearch, ...]) is a new debounce instance when loading or isSearch changed;
\* a timer the replaced instance had pending stays pending with its old closure.
Render ==
    LET cur == Snapshot(profiles, searchResults, loading, term,
                        startingAddPeople, selectedIds)
        newClosure == [loading |-> loading, isSearch |-> term # ""]
    IN  /\ mounted
        /\ rendered # cur
        /\ rendered' = cur
        /\ showToast' = ToastEffect(selectedIds)
        /\ IF newClosure # CurrentClosure /\ getProfilesTimer
           THEN /\ getProfilesTimer' = FALSE
                /\ staleTimers' = [staleTimers EXCEPT ![CurrentClosure] = @ + 1]
           ELSE UNCHANGED debounceVars
        /\ UNCHANGED <<profiles, searchResults, loading, term, startingAddPeople,
                       selectedIds, refVars, fetchVars, searchVars, addVars, lastOp,
                       userEvents>>

\* useEffect cleanup: mounted.current = false.  Timers and requests stay pending.
Unmount ==
    /\ UNCHANGED userEvents
    /\ mounted
    /\ mounted' = FALSE
    /\ lastOp' = [name |-> "unmount"]
    /\ UNCHANGED <<stateVars, searchTimeoutId, searchTimers, next, page, rendered,
                   debounceVars, fetchVars, searchVars, addVars>>

\* The list, the search bar and the tray exist only in the render that did not
\* return the <Loading/> view.
ListShown == mounted /\ ~rendered.startingAddPeople
SearchBarShown == ListShown /\ hasProfiles

\* ------------------------------------------------------------ pagination
\* A call of getProfiles (UserList.fetchMore).
getProfiles ==
    /\ UserEvent
    /\ ListShown
    /\ getProfilesTimer' = debounce(getProfilesTimer)
    /\ lastOp' = [name |-> "getProfiles"]
    /\ UNCHANGED <<stateVars, refVars, rendered, staleTimers, fetchVars,
                   searchVars, addVars>>

\* (mutant) the condition without the next.current test
GetProfilesIssues_IgnoresNext(c) == ~c.loading /\ ~c.isSearch /\ mounted

\* if (next.current && !loading && !term && mounted.current), with the loading
\* and term the getProfiles instance closed over.
GetProfilesIssues(c) == next /\ ~c.loading /\ ~c.isSearch /\ mounted

GetProfilesBody(c) ==
    IF GetProfilesIssues(c)
    THEN /\ loading' = TRUE
         /\ fetchLog' = Append(fetchLog, page + 1)
         /\ fetchInFlight' = fetchInFlight \cup {Len(fetchLog) + 1}
    ELSE UNCHANGED <<loading, fetchVars>>

\* The debounce timer of the current getProfiles instance fires.
GetProfilesTimerFires ==
    /\ UNCHANGED userEvents
    /\ getProfilesTimer
    /\ getProfilesTimer' = FALSE
    /\ GetProfilesBody(CurrentClosure)
    /\ lastOp' = [name |-> "getProfilesBody", closure |-> CurrentClosure]
    /\ UNCHANGED <<profiles, searchResults, term, startingAddPeople, selectedIds,
                   showToast, refVars, rendered, staleTimers, searchVars, addVars>>

\* The debounce timer of a replaced getProfiles instance fires.
StaleTimerFires ==
    \E c \in Closures :
        /\ UNCHANGED userEvents
        /\ staleTimers[c] > 0
        /\ staleTimers' = [staleTimers EXCEPT ![c] = @ - 1]
        /\ GetProfilesBody(c)
        /\ lastOp' = [name |-> "getProfilesBody", closure |-> c]
        /\ UNCHANGED <<profiles, searchResults, term, startingAddPeople,
                       selectedIds, showToast, refVars, rendered,
                       getProfilesTimer, searchVars, addVars>>

\* const loadedProfiles = ({users}) => {...}
loadedProfiles(users) ==
    IF mounted
    THEN /\ next' = (IF Len(users) = 0 THEN FALSE ELSE next)
         /\ page' = page + 1
         /\ loading' = FALSE
         /\ profiles' = profiles \o users
    ELSE UNCHANGED <<next, page, loading, profiles>>

\* fetchProfilesNotInChannel(...) resolves: .then(loadedProfiles)
FetchResolved ==
    \E i \in fetchInFlight :
        /\ UNCHANGED userEvents
        /\ fetchInFlight' = fetchInFlight \ {i}
        /\ loadedProfiles(fetchProfilesNotInChannel(fetchLog[i]))
        /\ lastOp' = [name |-> "loadedProfiles"]
        /\ UNCHANGED <<searchResults, term, startingAddPeople, selectedIds,
                       showToast, searchTimeoutId, searchTimers, mounted,
                       rendered, debounceVars, fetchLog, searchVars, addVars>>

\* fetchProfilesNotInChannel(...) rejects: there is no rejection handler.
FetchRejected ==
    \E i \in fetchInFlight :
        /\ UNCHANGED userEvents
        /\ fetchInFlight' = fetchInFlight \ {i}
        /\ lastOp' = [name |-> "fetchRejected"]
        /\ UNCHANGED <<stateVars, refVars, rendered, debounceVars, fetchLog,
                       searchVars, addVars>>

\* ------------------------------------------------------------- selection
\* function removeProfileFromList(list, id)
removeProfileFromList(list, id) == list \ {id}

\* const clearSearch = useCallback(() => {...}, []) : the three setter calls
clearSearchSets ==
    /\ loading' = FALSE
    /\ term' = ""
    /\ searchResults' = << >>

\* The list UserList is given as of the last render: profiles={data}.
RenderedData ==
    data(rendered.term, rendered.searchResults, rendered.profiles, selectedCount)

\* The rows UserList shows.
DisplayedUsers == Range(RenderedData)

\* The updater handleSelectProfile passes to setSelectedIds, applied to the
\* latest selection `current`; count is the selectedCount the handler closed over.
SelectUpdater(current, user, count) ==
    IF user \in current THEN removeProfileFromList(current, user)
    ELSE IF count >= MAX_SELECTED_USERS THEN current
    ELSE current \cup {user}

\* The updater rejects the toggle: it calls setShowToast(true).
SelectRejects(current, user, count) ==
    user \notin current /\ count >= MAX_SELECTED_USERS

\* const handleSelectProfile = useCallback((user) => {...}, [clearSearch, selectedIds, ...])
handleSelectProfile(user) ==
    /\ UserEvent
    /\ ListShown
    /\ user \in DisplayedUsers
    /\ clearSearchSets
    /\ selectedIds' = SelectUpdater(selectedIds, user, selectedCount)
    /\ showToast' = (IF SelectRejects(selectedIds, user, selectedCount)
                     THEN TRUE ELSE showToast)
    /\ lastOp' = [name |-> "handleSelectProfile", user |-> user,
                  before |-> selectedIds]
    /\ UNCHANGED <<profiles, startingAddPeople, refVars, rendered, debounceVars,
                   fetchVars, searchVars, addVars>>

\* const handleRemoveProfile = useCallback((id) => {...}, [selectedIds])
handleRemoveProfile(id) ==
    /\ UserEvent
    /\ ListShown
    /\ id \in rendered.selectedIds
    /\ selectedIds' = removeProfileFromList(selectedIds, id)
    /\ lastOp' = [name |-> "handleRemoveProfile"]
    /\ UNCHANGED <<profiles, searchResults, loading, term, startingAddPeople,
                   showToast, refVars, rendered, debounceVars, fetchVars,
                   searchVars, addVars>>

\* SelectedUsers is handed setShowToast and lowers the toast with it.
DismissToast ==
    /\ UserEvent
    /\ ListShown
    /\ showToast
    /\ showToast' = FALSE
    /\ lastOp' = [name |-> "dismissToast"]
    /\ UNCHANGED <<profiles, searchResults, loading, term, startingAddPeople,
                   selectedIds, refVars, rendered, debounceVars, fetchVars,
                   searchVars, addVars>>

\* ------------------------------------------------------------ submission
\* The optional argument of startAddPeople: absent, or a map holding no id or
\* the id of one user the screen shows.
SelectedIdArgs ==
    {NoArg} \cup {[given |-> TRUE, ids |-> s] :
                    s \in {t \in SUBSET (DisplayedUsers \cup rendered.selectedIds) :
                              Cardinality(t) <= 1}}

\* const idsToUse = selectedId ? Object.keys(selectedId) : Object.keys(selectedIds)
IdsToUse(selectedId) ==
    IF selectedId.given THEN selectedId.ids ELSE rendered.selectedIds

\* (mutant) the call is made for an empty id list too
IssuesCall_EvenWhenEmpty(idsToUse) == TRUE

\* if (idsToUse.length === 0) success = false; else success = await addPeopleToChannel(idsToUse)
IssuesCall(idsToUse) == Cardinality(idsToUse) # 0

\* (mutant) a submission with no id also empties the selection
startAddPeople_DropsSelection(selectedId) ==
    /\ UserEvent
    /\ ListShown
    /\ IF rendered.startingAddPeople
       THEN UNCHANGED <<startingAddPeople, addLog, addInFlight, selectedIds>>
       ELSE IF ~IssuesCall(IdsToUse(selectedId))
       THEN /\ startingAddPeople' = FALSE
            /\ selectedIds' = {}
            /\ UNCHANGED <<addLog, addInFlight>>
       ELSE /\ startingAddPeople' = TRUE
            /\ addLog' = Append(addLog, IdsToUse(selectedId))
            /\ addInFlight' = addInFlight \cup {Len(addLog) + 1}
            /\ UNCHANGED selectedIds
    /\ lastOp' = [name |-> "startAddPeople", ids |-> IdsToUse(selectedId)]
    /\ UNCHANGED <<profiles, searchResults, loading, term, showToast,
                   refVars, rendered, debounceVars, fetchVars, searchVars,
                   alerts, closes>>

\* const startAddPeople = useCallback(async (selectedId?) => {...},
\*                                    [startingAddPeople, selectedIds, ...])
\* up to its first await (or to its end, when it awaits nothing).
startAddPeople(selectedId) ==
    /\ UserEvent
    /\ ListShown
    /\ IF rendered.startingAddPeople
       THEN UNCHANGED <<startingAddPeople, addLog, addInFlight>>
       ELSE IF ~IssuesCall(IdsToUse(selectedId))
       THEN /\ startingAddPeople' = FALSE
            /\ UNCHANGED <<addLog, addInFlight>>
       ELSE /\ startingAddPeople' = TRUE
            /\ addLog' = Append(addLog, IdsToUse(selectedId))
            /\ addInFlight' = addInFlight \cup {Len(addLog) + 1}
    /\ lastOp' = [name |-> "startAddPeople", ids |-> IdsToUse(selectedId)]
    /\ UNCHANGED <<profiles, searchResults, loading, term, selectedIds, showToast,
                   refVars, rendered, debounceVars, fetchVars, searchVars,
                   alerts, closes>>

\* (mutant) a failed call leaves startingAddPeople as it is
StartingAfterResult_NoReset(error, starting) == starting

\* if (success) close(); else setStartingAddPeople(false);
StartingAfterResult(error, starting) == IF error THEN FALSE ELSE starting

\* addMembersToChannel resolves: the rest of addPeopleToChannel, then the rest
\* of startAddPeople (close() on success, setStartingAddPeople(false) otherwise).
AddMembersResolved ==
    \E i \in addInFlight, error \in BOOLEAN :
        /\ UNCHANGED userEvents
        /\ addInFlight' = addInFlight \ {i}
        /\ alerts' = (IF error THEN alerts + 1 ELSE alerts)
        /\ closes' = (IF error THEN closes ELSE closes + 1)
        /\ startingAddPeople' = StartingAfterResult(error, startingAddPeople)
        /\ lastOp' = [name |-> "addMembersResolved", error |-> error]
        /\ UNCHANGED <<profiles, searchResults, loading, term, selectedIds,
                       showToast, refVars, rendered, debounceVars, fetchVars,
                       searchVars, addLog>>

\* ---------------------------------------------------------------- search
\* const searchUsers = useCallback(async (searchTerm) => {...}) up to its await
searchUsers(searchTerm) ==
    /\ loading' = TRUE
    /\ searchLog' = Append(searchLog, toLowerCase(searchTerm))
    /\ searchInFlight' = searchInFlight \cup {Len(searchLog) + 1}

\* searchProfiles resolves: the rest of searchUsers
SearchResolved ==
    \E i \in searchInFlight, ok \in BOOLEAN :
        /\ UNCHANGED userEvents
        /\ searchInFlight' = searchInFlight \ {i}
        /\ searchResults' = (IF ok THEN searchProfiles(searchLog[i]) ELSE << >>)
        /\ loading' = FALSE
        /\ lastOp' = [name |-> "searchResolved"]
        /\ UNCHANGED <<profiles, term, startingAddPeople, selectedIds, showToast,
                       refVars, rendered, debounceVars, fetchVars, searchLog,
                       addVars>>

\* const search = useCallback(() => searchUsers(term), [searchUsers, term])
search ==
    /\ UserEvent
    /\ SearchBarShown
    /\ searchUsers(rendered.term)
    /\ lastOp' = [name |-> "search"]
    /\ UNCHANGED <<profiles, searchResults, term, startingAddPeople, selectedIds,
                   showToast, refVars, rendered, debounceVars, fetchVars, addVars>>

\* (mutant) the previous timer is left pending
clearTimeout_NoOp(timers, id) == timers

\* if (searchTimeoutId.current) clearTimeout(searchTimeoutId.current):
\* the pending timers without the one named id (none when id is null or has fired).
clearTimeout(timers, id) == {t \in timers : t.id # id}

\* The id setTimeout returns: one no pending timer has.
NewTimerId(timers) ==
    CHOOSE i \in 1..(Cardinality(timers) + 1) :
        /\ \A t \in timers : t.id # i
        /\ \A j \in 1..(i - 1) : \E t \in timers : t.id = j

\* const onSearch = useCallback((text) => {...}, [searchUsers, clearSearch])
onSearch(text) ==
    /\ UserEvent
    /\ SearchBarShown
    /\ IF text # ""
       THEN LET kept == clearTimeout(searchTimers, searchTimeoutId)
                id == NewTimerId(kept)
            IN  /\ loading' = TRUE
                /\ term' = text
                /\ searchTimeoutId' = id
                /\ searchTimers' = kept \cup {[id |-> id, text |-> text]}
                /\ UNCHANGED searchResults
       ELSE /\ clearSearchSets
            /\ UNCHANGED <<searchTimeoutId, searchTimers>>
    /\ lastOp' = [name |-> "onSearch", text |-> text]
    /\ UNCHANGED <<profiles, startingAddPeople, selectedIds, showToast, next, page,
                   mounted, rendered, debounceVars, fetchVars, searchVars, addVars>>

\* A timer onSearch set fires: searchUsers(text).  The ref keeps the id.
SearchTimerFires ==
    \E t \in searchTimers :
        /\ UNCHANGED userEvents
        /\ searchTimers' = searchTimers \ {t}
        /\ searchUsers(t.text)
        /\ lastOp' = [name |-> "searchTimer", id |-> t.id]
        /\ UNCHANGED <<profiles, searchResults, term, startingAddPeople,
                       selectedIds, showToast, searchTimeoutId, next, page,
                       mounted, rendered, debounceVars, fetchVars, addVars>>

\* Search.onCancel = clearSearch
clearSearch ==
    /\ UserEvent
    /\ SearchBarShown
    /\ clearSearchSets
    /\ lastOp' = [name |-> "clearSearch"]
    /\ UNCHANGED <<profiles, startingAddPeople, selectedIds, showToast, refVars,
                   rendered, debounceVars, fetchVars, searchVars, addVars>>

\* ------------------------------------------------------------------ Next
Next ==
    \/ Render
    \/ Unmount
    \/ getProfiles
    \/ GetProfilesTimerFires
    \/ StaleTimerFires
    \/ FetchResolved
    \/ FetchRejected
    \/ \E user \in Users : handleSelectProfile(user)
    \/ \E id \in Users : handleRemoveProfile(id)
    \/ DismissToast
    \/ \E selectedId \in SelectedIdArgs : startAddPeople(selectedId)
    \/ AddMembersResolved
    \/ search
    \/ \E text \in SearchTexts : onSearch(text)
    \/ SearchTimerFires
    \/ SearchResolved
    \/ clearSearch

Spec == Init /\ [][Next]_vars

\* ================================================================ claims
\* Steps, recognised from the outside: a user event increments userEvents and
\* names its handler in lastOp.
ToggleStep(u) ==
    /\ userEvents' = userEvents + 1
    /\ lastOp'.name = "handleSelectProfile"
    /\ lastOp'.user = u

SubmitStep ==
    /\ userEvents' = userEvents + 1
    /\ lastOp'.name = "startAddPeople"

\* An addMembersToChannel call completes, with or without an error.
AddCompletes(error) ==
    /\ addInFlight' # addInFlight
    /\ Cardinality(addInFlight') < Cardinality(addInFlight)
    /\ lastOp'.name = "addMembersResolved"
    /\ lastOp'.error = error

\* fetchProfilesNotInChannel pages requested so far are exactly 0, 1, 2, ...
ConsecutivePages == \A i \in DOMAIN fetchLog : fetchLog[i] = i - 1

\* The concatenation of the server's chunks for pages 0..p.
RECURSIVE PagesUpTo(_)
PagesUpTo(p) ==
    IF p < 0 THEN << >> ELSE PagesUpTo(p - 1) \o fetchProfilesNotInChannel(p)

\* C1 (as claimed): the selection set never holds more than MAX_SELECTED_USERS
\* ids, and a toggle of an unselected id while the set is at the cap leaves the
\* set unchanged and raises the limit notification.
C1_SelectionCap ==
    [][/\ Cardinality(selectedIds') <= MAX_SELECTED_USERS
       /\ \A u \in Users :
            (/\ ToggleStep(u)
             /\ u \notin selectedIds
             /\ Cardinality(selectedIds) >= MAX_SELECTED_USERS)
            => (selectedIds' = selectedIds /\ showToast' = TRUE)]_vars

\* C2 (as claimed): toggling the same user twice in a row gives back the
\* selection set the first toggle started from.
C2_ToggleTwice ==
    [][\A u \in Users :
         (/\ lastOp.name = "handleSelectProfile"
          /\ lastOp.user = u
          /\ ToggleStep(u))
         => selectedIds' = lastOp.before]_vars

\* C3: a submission started with zero ids issues no addMembersToChannel call,
\* raises no alert, does not close the screen, and leaves startingAddPeople false.
C3_EmptySubmission ==
    [][(SubmitStep /\ lastOp'.ids = {})
       => /\ addLog' = addLog
          /\ addInFlight' = addInFlight
          /\ alerts' = alerts
          /\ closes' = closes
          /\ startingAddPeople' = FALSE]_vars

\* C3 witness: a zero-id submission has just run while ids were selected on
\* screen (the empty map was passed as argument), and the form is enabled.
C3_Witness ==
    /\ lastOp.name = "startAddPeople"
    /\ lastOp.ids = {}
    /\ rendered.selectedIds # {}
    /\ ~startingAddPeople
    /\ addLog = << >>

\* C4 (as claimed): a call that completes without error is followed by exactly
\* one close, close happens only then, and at most once in a run.
C4_CloseOnce ==
    [][/\ AddCompletes(FALSE) => closes' = closes + 1
       /\ closes' # closes => AddCompletes(FALSE)
       /\ closes' <= 1]_vars

\* C5: a call that completes with an error raises exactly one alert, does not
\* close the screen and sets startingAddPeople to false; alerts are raised by
\* nothing else.
C5_FailedSubmission ==
    [][/\ AddCompletes(TRUE)
          => /\ alerts' = alerts + 1
             /\ closes' = closes
             /\ startingAddPeople' = FALSE
       /\ alerts' # alerts => AddCompletes(TRUE)]_vars

\* C5 witness: after a failed call and its alert, a later submit has issued a
\* new call.
C5_Witness ==
    /\ alerts = 1
    /\ closes = 0
    /\ Len(addLog) = 2
    /\ addInFlight = {2}
    /\ lastOp.name = "startAddPeople"

\* C6 (as claimed): at most one addMembersToChannel call is in flight.
C6_OneSubmissionInFlight == Cardinality(addInFlight) <= 1

\* C7 (as claimed): at most one fetchProfilesNotInChannel request is in flight.
C7_OneFetchInFlight == Cardinality(fetchInFlight) <= 1

\* C8: once next.current is false, no step issues a fetchProfilesNotInChannel
\* request and next.current stays false.
C8_NoFetchAfterEmptyPage ==
    [][next = FALSE => (fetchLog' = fetchLog /\ next' = FALSE)]_vars

\* C8 witness: after the empty page, the body of getProfiles has run in an
\* instance that saw no loading and no term, on the mounted screen, and did
\* not issue a request.
C8_Witness ==
    /\ next = FALSE
    /\ mounted
    /\ lastOp.name = "getProfilesBody"
    /\ lastOp.closure = [loading |-> FALSE, isSearch |-> FALSE]
    /\ fetchInFlight = {}

\* C9 (as claimed): the pages requested are 0, 1, 2, ... without repetition or
\* gap, and profiles is the concatenation of the responses for pages 0..page.
C9_ConsecutivePages ==
    /\ ConsecutivePages
    /\ profiles = PagesUpTo(page)

\* C10 (as claimed): when the body of getProfiles runs while term is non-empty
\* it issues no request and leaves page, next, loading and profiles unchanged.
C10_NoFetchWhileSearching ==
    [][((GetProfilesTimerFires \/ StaleTimerFires) /\ term # "")
       => UNCHANGED <<fetchLog, fetchInFlight, page, next, loading, profiles>>]_vars

\* A step of onSearch with a non-empty text.
KeystrokeStep ==
    /\ userEvents' = userEvents + 1
    /\ lastOp'.name = "onSearch"
    /\ lastOp'.text # ""

\* C11: at most one search timer is pending, the pending timer is the one whose
\* id searchTimeoutId holds, and after a keystroke it is that keystroke's timer.
C11_OnePendingSearchTimer ==
    [][/\ Cardinality(searchTimers') <= 1
       /\ \A t \in searchTimers' : t.id = searchTimeoutId'
       /\ KeystrokeStep
          => searchTimers' = {[id |-> searchTimeoutId', text |-> lastOp'.text]}]_vars

\* C11 witness: a second keystroke arrived while the timer of the first was
\* still pending (no search has been issued), and only its timer is pending.
C11_Witness ==
    /\ lastOp.name = "onSearch"
    /\ lastOp.text = "B"
    /\ rendered.term = "a"
    /\ searchLog = << >>
    /\ \E t \in searchTimers : t.text = "B"
    /\ ~\E t \in searchTimers : t.text = "a"

\* A step of onSearch with the empty text.
EmptyTextStep ==
    /\ userEvents' = userEvents + 1
    /\ lastOp'.name = "onSearch"
    /\ lastOp'.text = ""

\* C12 (as claimed): onSearch('') clears term and searchResults, sets loading
\* false and issues no searchProfiles call, and no timer or completion that
\* runs after it (before the next user event) issues one either.
C12_EmptyTextNoSearch ==
    [][/\ EmptyTextStep
          => /\ term' = ""
             /\ searchResults' = << >>
             /\ loading' = FALSE
             /\ searchLog' = searchLog
       /\ (/\ lastOp.name = "onSearch"
           /\ lastOp.text = ""
           /\ userEvents' = userEvents)
          => searchLog' = searchLog]_vars

\* ------------------------------------------------------- the displayed list
\* The inputs of the data memo: terms, result lists without repetition, and
\* selections.
DataTerms == {"a", "al", "AL", "b", "B"}
MaxResults == 4
DataResults ==
    {s \in UNION {[1..n -> Directory] : n \in 0..MaxResults} :
        \A i, j \in DOMAIN s : i # j => s[i] # s[j]}
DataSelections == {{}, {1}}

\* The screen rendered in search mode: the first page is loaded and the state
\* cells hold a term, a list of search results and a selection.
InitData ==
    /\ profiles = fetchProfilesNotInChannel(0)
    /\ searchResults \in DataResults
    /\ loading = FALSE
    /\ term \in DataTerms
    /\ startingAddPeople = FALSE
    /\ selectedIds \in DataSelections
    /\ showToast = (Cardinality(selectedIds) >= MAX_SELECTED_USERS)
    /\ searchTimeoutId = NoTimer
    /\ searchTimers = {}
    /\ next = TRUE
    /\ page = 0
    /\ mounted = TRUE
    /\ rendered = Snapshot(profiles, searchResults, loading, term,
                           startingAddPeople, selectedIds)
    /\ getProfilesTimer = FALSE
    /\ staleTimers = [c \in Closures |-> 0]
    /\ fetchLog = <<0>>
    /\ fetchInFlight = {}
    /\ searchLog = <<toLowerCase(term)>>
    /\ searchInFlight = {}
    /\ addLog = << >>
    /\ addInFlight = {}
    /\ alerts = 0
    /\ closes = 0
    /\ lastOp = [name |-> "render"]
    /\ userEvents = 0

\* The list is displayed: the term is edited, a displayed row is tapped, the
\* screen renders again.
NextData ==
    \/ Render
    \/ \E text \in DataTerms : onSearch(text)
    \/ \E user \in Directory : handleSelectProfile(user)

SpecData == InitData /\ [][NextData]_vars

\* C13: with a non-empty term the displayed list holds exactly the search
\* results that pass the term filter, without the current user once a user is
\* selected; no user twice; the results whose username equals or starts with
\* the term come first, and within each of the two groups the order is the
\* order of the API.  For term "al" and results [albert, alice, ball] with
\* nothing selected the list is [albert, alice].
C13_DisplayedList ==
    LET d == RenderedData
        t == rendered.term
        sr == rendered.searchResults
        exact(u) == Username(u) = t \/ startsWith(Username(u), t)
        shown(u) == MatchesTerm(u, t) /\ ~(selectedCount > 0 /\ u = currentUserId)
        pos(u) == CHOOSE i \in DOMAIN sr : sr[i] = u
    IN  t # "" =>
            /\ Range(d) = {u \in Range(sr) : shown(u)}
            /\ \A i, j \in DOMAIN d : i < j =>
                   /\ d[i] # d[j]
                   /\ exact(d[j]) => exact(d[i])
                   /\ (exact(d[i]) <=> exact(d[j])) => pos(d[i]) < pos(d[j])
            /\ (t = "al" /\ sr = <<1, 3, 2>> /\ rendered.selectedIds = {})
                   => d = <<1, 3>>

\* The term was edited to "b" and rendered: a later exact match is promoted
\* over an earlier nickname match, and the current user is left out.
C13_Witness ==
    /\ lastOp.name = "onSearch"
    /\ lastOp.text = "b"
    /\ rendered.term = "b"
    /\ rendered.searchResults = <<4, 1, 2>>
    /\ rendered.selectedIds = {1}
    /\ RenderedData = <<2, 1>>

\* A response is delivered: a pagination fetch, a search or a submission completes.
ResponseDelivered ==
    FetchResolved \/ FetchRejected \/ SearchResolved \/ AddMembersResolved

\* C14 (as claimed): a response delivered after teardown (mounted = false)
\* changes none of profiles, page, hasMore, searchResults, loading,
\* startingAddPeople and triggers no alert and no screen close.
C14_ResponsesAfterUnmountDiscarded ==
    [][(~mounted /\ ResponseDelivered) =>
           /\ UNCHANGED <<profiles, page, next, searchResults, loading,
                          startingAddPeople>>
           /\ UNCHANGED <<alerts, closes>>]_vars

\* A render commits: the handlers close over a new snapshot.
RenderStep == rendered' # rendered

\* C15: when a render sees selectedCount go from below MAX_SELECTED_USERS to
\* MAX_SELECTED_USERS, showToast becomes true; when it sees it drop from the
\* cap to below, showToast becomes false; a render that leaves it at the cap
\* does not change showToast.
C15_ToastFollowsCap ==
    [][RenderStep =>
          LET old == Cardinality(rendered.selectedIds)
              new == Cardinality(rendered'.selectedIds)
          IN  /\ (old < MAX_SELECTED_USERS /\ new = MAX_SELECTED_USERS) => showToast'
              /\ (old = MAX_SELECTED_USERS /\ new < MAX_SELECTED_USERS) => ~showToast'
              /\ (old = MAX_SELECTED_USERS /\ new = MAX_SELECTED_USERS)
                     => showToast' = showToast]_vars

\* The toast was raised, dismissed, and a later render at the cap left it down.
C15_Witness ==
    /\ Cardinality(rendered.selectedIds) = MAX_SELECTED_USERS
    /\ lastOp.name = "onSearch"
    /\ rendered.term = lastOp.text
    /\ rendered.term # ""
    /\ ~showToast

\* C16 (as claimed): when a search response completes the last outstanding
\* searchProfiles request, the stored search results are the data of the most
\* recently issued request (its hits, or none if it failed), in whatever order
\* the responses arrived.
C16_ResponsesInRequestOrder ==
    [][(SearchResolved /\ searchInFlight' = {}) =>
           searchResults' \in {searchProfiles(searchLog[Len(searchLog)]), << >>}]_vars

\* C17 (as claimed): whenever term is empty the search results are empty and
\* no searchProfiles request is outstanding, whichever way the search was
\* cleared (empty text, cancel button, selection toggle).
C17_ResultsOnlyWhileSearching ==
    term = "" => (searchResults = << >> /\ searchInFlight = {})

\* Nothing is outstanding: the screen is mounted, every issued fetch and search
\* has completed and no timer is pending.  From such a state only a user event
\* can change loading.
Quiescent ==
    /\ mounted
    /\ fetchInFlight = {}
    /\ searchInFlight = {}
    /\ searchTimers = {}
    /\ ~getProfilesTimer
    /\ \A c \in Closures : staleTimers[c] = 0

\* C18 (as claimed, in the form a finite run refutes): once every issued fetch
\* and search has completed, resolved or rejected, and no timer is pending,
\* loading is false, so that a later fetchMore can issue a request.
C18_LoadingNotStuck == Quiescent => ~loading

====
